---------------------------- MODULE Spec2Model ----------------------------
(***************************************************************************)
(* A model of lunchy (src/lunchy.go), a wrapper around launchctl.          *)
(*                                                                         *)
(* One behaviour of the model is one process invocation: main routes the   *)
(* verb to its handler, the handler resolves name fragments against the    *)
(* catalog that `find` reports, and issues launchctl load / unload calls.  *)
(* Strings are sequences of one-character strings, so that TrimSpace,      *)
(* Split, Base, Replace and Index are computed as the Go library computes  *)
(* them.  What the process reads from its environment (the output of       *)
(* find, the profile file, the result of each launchctl call, of ReadFile  *)
(* and of Remove) is drawn with \E where the code reads it.                *)
(*                                                                         *)
(* The verbs install/add and status/ps are not modelled: they neither      *)
(* resolve fragments against the catalog nor issue load / unload.          *)
(***************************************************************************)
EXTENDS Integers, Sequences, FiniteSets, TLC

VARIABLES
    args,       \* os.Args: <<program, verb>> or <<program, verb, fragment>>
    pc,         \* the function the process is in; "exit" once it has ended
    exitCode,   \* -1 while running; 0, 1 (os.Exit(1)) or 2 (Go panic)
    profile,    \* the .lunchy file as the process found it; NotRead before
    names,      \* plistsAction's names / the handler's name argument
    plists,     \* the catalog getPlists() returned
    ni,         \* index into names (outer loop of plistsAction)
    pi,         \* index into plists (the range loop over the catalog)
    log,        \* external commands issued so far, in order
    printed,    \* lines printed by the latest step
    firstFail,  \* index in log of the first failed command, 0 if none
    shown,      \* descriptors handed to printPlistContent / editPlistContent
    action,     \* plistsAction's action argument; "" outside a profile batch
    scan,       \* what find returned to findPlists; NoScan before
    results     \* success of each external command of the latest step

vars == <<args, pc, exitCode, profile, names, plists, ni, pi, log, printed,
          firstFail, shown, action, scan, results>>

-----------------------------------------------------------------------------
(* Bounds of the model *)

\* Number of files one run of find reports.
MaxFiles == 2

\* Number of lines of the profile file.
MaxProfileLines == 3

-----------------------------------------------------------------------------
(* Strings *)

NL == "\n"

\* unicode.IsSpace, on the characters the model uses
IsSpace(c) == c \in {" ", NL, "\t", "\r"}

\* byte value order of the characters the model uses
Ord(c) ==
    CASE c = NL  -> 10
      [] c = " " -> 32
      [] c = "#" -> 35
      [] c = "." -> 46
      [] c = "/" -> 47
      [] c = "L" -> 76
      [] c = "a" -> 97
      [] c = "b" -> 98
      [] c = "c" -> 99
      [] c = "i" -> 105
      [] c = "l" -> 108
      [] c = "p" -> 112
      [] c = "s" -> 115
      [] c = "t" -> 116
      [] OTHER   -> 127

RECURSIVE TrimLeft(_)
TrimLeft(s) ==
    IF s # <<>> /\ IsSpace(Head(s)) THEN TrimLeft(Tail(s)) ELSE s

RECURSIVE TrimRight(_)
TrimRight(s) ==
    IF s # <<>> /\ IsSpace(s[Len(s)])
    THEN TrimRight(SubSeq(s, 1, Len(s) - 1))
    ELSE s

\* strings.TrimSpace
TrimSpace(s) == TrimRight(TrimLeft(s))

\* strings.Index: the 0-based position of the first occurrence, or -1
Index(s, sub) ==
    LET hits == { k \in 0 .. (Len(s) - Len(sub)) :
                    SubSeq(s, k + 1, k + Len(sub)) = sub }
    IN  IF hits = {} THEN -1
        ELSE CHOOSE k \in hits : \A h \in hits : k <= h

\* strings.Split(s, sep) for a one-character separator: always at least
\* one element, Split("", sep) = [""]
RECURSIVE Split(_, _)
Split(s, sep) ==
    LET k == Index(s, <<sep>>)
    IN  IF k = -1 THEN <<s>>
        ELSE <<SubSeq(s, 1, k)>> \o Split(SubSeq(s, k + 2, Len(s)), sep)

\* strings.Replace(s, old, new, 1): the first occurrence only
Replace1(s, old, new) ==
    LET k == Index(s, old)
    IN  IF k = -1 THEN s
        ELSE SubSeq(s, 1, k) \o new \o SubSeq(s, k + Len(old) + 1, Len(s))

RECURSIVE StripSlashes(_)
StripSlashes(s) ==
    IF s # <<>> /\ s[Len(s)] = "/"
    THEN StripSlashes(SubSeq(s, 1, Len(s) - 1))
    ELSE s

RECURSIVE LastElement(_)
LastElement(s) ==
    LET k == Index(s, <<"/">>)
    IN  IF k = -1 THEN s ELSE LastElement(SubSeq(s, k + 2, Len(s)))

\* filepath.Base: Base("") = ".", trailing slashes dropped, all-slashes = "/"
Base(path) ==
    IF path = <<>> THEN <<".">>
    ELSE LET p == StripSlashes(path)
         IN  IF p = <<>> THEN <<"/">> ELSE LastElement(p)

\* s < t in Go's string order
RECURSIVE LexLess(_, _)
LexLess(s, t) ==
    IF t = <<>> THEN FALSE
    ELSE IF s = <<>> THEN TRUE
    ELSE IF Head(s) # Head(t) THEN Ord(Head(s)) < Ord(Head(t))
    ELSE LexLess(Tail(s), Tail(t))

RECURSIVE Concat(_)
Concat(ss) == IF ss = <<>> THEN <<>> ELSE Head(ss) \o Concat(Tail(ss))

\* the text of a file whose lines are ls, each ended by a newline
Text(ls) == Concat([k \in 1 .. Len(ls) |-> ls[k] \o <<NL>>])

-----------------------------------------------------------------------------
(* The file system and the command line the process may meet *)

Ext == <<".", "p", "l", "i", "s", "t">>

launchAgentsPath == <<"/", "L">>

\* pPath: filepath.Join(launchAgentsPath, n + ".plist")
pPath(n) == launchAgentsPath \o <<"/">> \o n \o Ext

\* descriptor files find may report, the last one in a subdirectory
AllFiles ==
    { pPath(<<"a", "b">>), pPath(<<"b">>), pPath(<<"s", "/", "b", "b">>) }

\* the orders in which find may report at most MaxFiles of them
Reports ==
    UNION { { r \in [1 .. n -> AllFiles] :
                \A x, y \in 1 .. n : x # y => r[x] # r[y] } : n \in 0 .. MaxFiles }

\* what exec.Command("find", ...).Output() returns: an error, or the text
ScanOutcomes ==
    { [ok |-> FALSE, out |-> <<>>, files |-> <<>>] } \cup
    { [ok |-> TRUE, out |-> Text(r), files |-> r] : r \in Reports }

\* lines a profile file is made of
ProfileLineSet == { <<>>, <<"a">>, <<" ", "b", " ">>, <<"#", "a">> }

ProfileTexts ==
    UNION { { Text(ls) : ls \in [1 .. n -> ProfileLineSet] } :
            n \in 0 .. MaxProfileLines }

NoScan == [ok |-> FALSE, out |-> <<>>, files |-> <<"none">>]

NotRead == [kind |-> "notread", text |-> <<>>]

\* the states of <cwd>/.lunchy
ProfileFiles ==
    { [kind |-> "absent", text |-> <<>>], [kind |-> "unreadable", text |-> <<>>] }
    \cup { [kind |-> "ok", text |-> t] : t \in ProfileTexts }

\* fragments given on the command line
Fragments == { <<"a">>, <<"b">>, <<"a", "b">>, <<"c">>, <<".">> }

\* the keys of main's table that the model covers, and one that is no key
Verbs == { "start", "stop", "restart", "show", "edit", "remove", "rm",
           "list", "ls", "scan", "help" }

BatchVerbs == { "start", "stop", "restart" }


-----------------------------------------------------------------------------
(* Descriptor catalog and profile loader *)

\* findPlists: nil when find fails; otherwise one entry per line of the
\* trimmed output, in the order of the output
findPlists(o) ==
    IF ~o.ok THEN <<>>
    ELSE LET lines == Split(TrimSpace(o.out), NL)
         IN  [k \in 1 .. Len(lines) |-> Replace1(Base(lines[k]), Ext, <<>>)]

getPlists(o) == findPlists(o)

\* fileExists(profilePath())
profileExists(f) == f.kind # "absent"

\* the range loop of readProfile from line k on; line[0] of an empty line
\* is an index out of range and panics
RECURSIVE readProfileLoop(_, _, _)
readProfileLoop(lines, k, result) ==
    IF k > Len(lines) THEN [panic |-> FALSE, names |-> result]
    ELSE LET line == TrimSpace(lines[k])
         IN  IF line = <<>> THEN [panic |-> TRUE, names |-> <<>>]
             ELSE IF line[1] = "#" THEN readProfileLoop(lines, k + 1, result)
             ELSE readProfileLoop(lines, k + 1, Append(result, line))

\* readProfile: nil (ranged over as the empty slice) when the file cannot
\* be read
readProfile(f) ==
    IF f.kind # "ok" THEN [panic |-> FALSE, names |-> <<>>]
    ELSE readProfileLoop(Split(TrimSpace(f.text), NL), 1, <<>>)

-----------------------------------------------------------------------------
(* Lifecycle dispatcher.  w is [log, printed, firstFail, results]; ok is   *)
(* whether the external command succeeds.                                  *)

World ==
    [log |-> log, printed |-> <<>>, firstFail |-> firstFail, results |-> <<>>]

\* exec.Command(cmd, path) run to completion
Exec(w, cmd, path, ok) ==
    [w EXCEPT !.log = Append(w.log, [cmd |-> cmd, path |-> path]),
              !.firstFail = IF ~ok /\ w.firstFail = 0
                            THEN Len(w.log) + 1 ELSE w.firstFail,
              !.results = Append(w.results, ok)]

Println(w, line) == [w EXCEPT !.printed = Append(w.printed, line)]

startDaemon(w, name, ok) ==
    Println(Exec(w, "load", pPath(name), ok),
            IF ok THEN <<"started", name>> ELSE <<"failed to start", name>>)

stopDaemon(w, name, ok) ==
    Println(Exec(w, "unload", pPath(name), ok),
            IF ok THEN <<"stopped", name>> ELSE <<"failed to stop", name>>)

\* a restart that gives up when the unload fails
restartDaemonUnlessStopFails(w, name, okStop, okStart) ==
    IF okStop
    THEN startDaemon(stopDaemon(w, name, okStop), name, okStart)
    ELSE stopDaemon(w, name, okStop)

\* restart: stopDaemon(plist); startDaemon(plist)
restartDaemon(w, name, okStop, okStart) ==
    startDaemon(stopDaemon(w, name, okStop), name, okStart)

\* a dispatcher that acts on nothing more once a command has failed
dispatchUntilFailure(w, act, plist, ok1, ok2) ==
    IF w.firstFail > 0 THEN w
    ELSE CASE act = "start"   -> startDaemon(w, plist, ok1)
           [] act = "stop"    -> stopDaemon(w, plist, ok1)
           [] act = "restart" -> restartDaemon(w, plist, ok1, ok2)
           [] OTHER           -> w

\* the switch of plistsAction, and the loop bodies of startDaemons,
\* stopDaemons and restartDaemons
dispatch(w, act, plist, ok1, ok2) ==
    CASE act = "start"   -> startDaemon(w, plist, ok1)
      [] act = "stop"    -> stopDaemon(w, plist, ok1)
      [] act = "restart" -> restartDaemon(w, plist, ok1, ok2)
      [] OTHER           -> w

\* a match on the beginning of the entry only (strings.HasPrefix)
MatchesPrefix(plist, name) == Index(plist, name) = 0

\* strings.Index(plist, name) != -1
Matches(plist, name) == Index(plist, name) # -1

-----------------------------------------------------------------------------
(* The process *)

Usage == <<"Usage: lunchy [start|stop|restart|list|status|install|show|edit|remove|scan] [options]">>

\* main's table m
Handler(v) ==
    CASE v = "edit"    -> "editPlist"
      [] v = "help"    -> "printUsage"
      [] v = "list"    -> "printList"
      [] v = "ls"      -> "printList"
      [] v = "remove"  -> "removePlist"
      [] v = "restart" -> "restartDaemons"
      [] v = "rm"      -> "removePlist"
      [] v = "scan"    -> "scanPath"
      [] v = "show"    -> "showPlist"
      [] v = "start"   -> "startDaemons"
      [] v = "stop"    -> "stopDaemons"

Init ==
    /\ args \in { <<"lunchy">> }
                \cup { <<"lunchy", v>> : v \in Verbs \cup {"bogus"} }
                \cup { <<"lunchy", v, f>> : v \in Verbs \cup {"bogus"},
                                            f \in Fragments }
    /\ pc = "main"
    /\ exitCode = -1
    /\ profile = NotRead
    /\ names = <<>>
    /\ plists = <<>>
    /\ ni = 1
    /\ pi = 1
    /\ log = <<>>
    /\ printed = <<>>
    /\ firstFail = 0
    /\ shown = <<>>
    /\ action = ""
    /\ scan = NoScan
    /\ results = <<>>

\* os.Exit(code), or the return from main (code 0), printing lines first
Exit(code, lines) ==
    /\ pc' = "exit"
    /\ exitCode' = code
    /\ printed' = lines
    /\ results' = <<>>

\* main
Main ==
    /\ pc = "main"
    /\ IF Len(args) = 1 \/ args[2] \notin Verbs
       THEN Exit(1, <<Usage>>)
       ELSE /\ pc' = Handler(args[2])
            /\ UNCHANGED <<exitCode, printed, results>>
    /\ UNCHANGED <<args, profile, names, plists, ni, pi, log, firstFail,
                   shown, action, scan>>

\* an entry that takes the profile whenever there is one, fragment or not
DaemonsEntryProfileFirst(fn, profileFn) ==
    /\ pc = fn
    /\ \E f \in ProfileFiles :
         /\ profile' = f
         /\ IF profileExists(f)
            THEN /\ pc' = profileFn
                 /\ UNCHANGED <<exitCode, printed, results, names, plists, scan>>
            ELSE IF Len(args) = 2
            THEN /\ Exit(1, << <<"name required">> >>)
                 /\ UNCHANGED <<names, plists, scan>>
            ELSE \E o \in ScanOutcomes :
                   /\ names' = <<args[3]>>
                   /\ scan' = o
                   /\ plists' = getPlists(o)
                   /\ pc' = fn \o ".loop"
                   /\ UNCHANGED <<exitCode, printed, results>>
    /\ UNCHANGED <<args, ni, pi, log, firstFail, shown, action>>

\* startDaemons / stopDaemons / restartDaemons up to their range loop;
\* with no name either the profile is taken or exitWithInvalidArgs exits
DaemonsEntry(fn, profileFn) ==
    /\ pc = fn
    /\ IF Len(args) = 2
       THEN \E f \in ProfileFiles :
              /\ profile' = f
              /\ IF profileExists(f)
                 THEN /\ pc' = profileFn
                      /\ UNCHANGED <<exitCode, printed, results>>
                 ELSE Exit(1, << <<"name required">> >>)
              /\ UNCHANGED <<names, plists, scan>>
       ELSE \E o \in ScanOutcomes :
              /\ names' = <<args[3]>>
              /\ scan' = o
              /\ plists' = getPlists(o)
              /\ pc' = fn \o ".loop"
              /\ UNCHANGED <<exitCode, printed, results, profile>>
    /\ UNCHANGED <<args, ni, pi, log, firstFail, shown, action>>

startDaemons == DaemonsEntry("startDaemons", "startProfile")

stopDaemons == DaemonsEntry("stopDaemons", "stopProfile")

restartDaemons == DaemonsEntry("restartDaemons", "restartProfile")

\* one iteration of the range loop of startDaemons / stopDaemons /
\* restartDaemons, or the return when the catalog is exhausted
DaemonsLoop(fn, act) ==
    /\ pc = fn \o ".loop"
    /\ IF pi > Len(plists)
       THEN /\ Exit(0, <<>>)
            /\ UNCHANGED <<pi, log, firstFail>>
       ELSE \E ok1, ok2 \in BOOLEAN :
              LET w == IF Matches(plists[pi], names[1])
                       THEN dispatch(World, act, plists[pi], ok1, ok2)
                       ELSE World
              IN  /\ log' = w.log
                  /\ printed' = w.printed
                  /\ firstFail' = w.firstFail
                  /\ results' = w.results
                  /\ pi' = pi + 1
                  /\ UNCHANGED <<pc, exitCode>>
    /\ UNCHANGED <<args, profile, names, plists, ni, shown, action, scan>>

startDaemonsLoop == DaemonsLoop("startDaemons", "start")

stopDaemonsLoop == DaemonsLoop("stopDaemons", "stop")

restartDaemonsLoop == DaemonsLoop("restartDaemons", "restart")

\* startProfile / stopProfile / restartProfile up to the loops of
\* plistsAction: readProfile() is evaluated first, then getPlists()
ProfileEntry(fn, act, banner) ==
    /\ pc = fn
    /\ LET r == readProfile(profile)
       IN  IF r.panic
           THEN /\ Exit(2, << <<banner>> >>)
                /\ UNCHANGED <<names, plists, action, scan>>
           ELSE \E o \in ScanOutcomes :
                  /\ names' = r.names
                  /\ scan' = o
                  /\ plists' = getPlists(o)
                  /\ action' = act
                  /\ pc' = "plistsAction"
                  /\ printed' = << <<banner>> >>
                  /\ UNCHANGED <<exitCode, results>>
    /\ UNCHANGED <<args, profile, ni, pi, log, firstFail, shown>>

startProfile ==
    ProfileEntry("startProfile", "start", "Starting daemons in profile:")

stopProfile ==
    ProfileEntry("stopProfile", "stop", "Stopping daemons in profile:")

restartProfile ==
    ProfileEntry("restartProfile", "restart", "Restarting daemons in profile:")

\* one step of the nested loops of plistsAction
plistsAction ==
    /\ pc = "plistsAction"
    /\ IF ni > Len(names)
       THEN /\ Exit(0, <<>>)
            /\ UNCHANGED <<ni, pi, log, firstFail>>
       ELSE IF pi > Len(plists)
       THEN /\ ni' = ni + 1
            /\ pi' = 1
            /\ printed' = <<>>
            /\ results' = <<>>
            /\ UNCHANGED <<pc, exitCode, log, firstFail>>
       ELSE \E ok1, ok2 \in BOOLEAN :
              LET w == IF Matches(plists[pi], names[ni])
                       THEN dispatch(World, action, plists[pi], ok1, ok2)
                       ELSE World
              IN  /\ log' = w.log
                  /\ printed' = w.printed
                  /\ firstFail' = w.firstFail
                  /\ results' = w.results
                  /\ pi' = pi + 1
                  /\ UNCHANGED <<pc, exitCode, ni>>
    /\ UNCHANGED <<args, profile, names, plists, shown, action, scan>>

\* the index of the first catalog entry that contains name, 0 if none:
\* where the range loops of showPlist and editPlist return
FirstMatch(ps, name) ==
    LET hits == { k \in 1 .. Len(ps) : Matches(ps[k], name) }
    IN  IF hits = {} THEN 0
        ELSE CHOOSE k \in hits : \A h \in hits : k <= h

\* showPlist with printPlistContent; readOk is whether ioutil.ReadFile
\* succeeds
showPlist ==
    /\ pc = "showPlist"
    /\ IF Len(args) < 3
       THEN /\ Exit(1, << <<"name required">> >>)
            /\ UNCHANGED <<names, plists, shown, scan>>
       ELSE \E o \in ScanOutcomes, readOk \in BOOLEAN :
              LET ps == getPlists(o)
                  k  == FirstMatch(ps, args[3])
              IN  /\ names' = <<args[3]>>
                  /\ scan' = o
                  /\ plists' = ps
                  /\ IF k = 0
                     THEN /\ Exit(0, <<>>)
                          /\ shown' = <<>>
                     ELSE /\ shown' = <<ps[k]>>
                          /\ IF readOk
                             THEN Exit(0, << <<"contents", pPath(ps[k])>> >>)
                             ELSE Exit(1, << <<"unable to read plist">> >>)
    /\ UNCHANGED <<args, profile, ni, pi, log, firstFail, action>>

\* editPlist with editPlistContent; editorSet is whether $EDITOR is set
editPlist ==
    /\ pc = "editPlist"
    /\ IF Len(args) < 3
       THEN /\ Exit(1, << <<"name required">> >>)
            /\ UNCHANGED <<names, plists, shown, log, scan>>
       ELSE \E o \in ScanOutcomes, editorSet \in BOOLEAN :
              LET ps == getPlists(o)
                  k  == FirstMatch(ps, args[3])
              IN  /\ names' = <<args[3]>>
                  /\ scan' = o
                  /\ plists' = ps
                  /\ IF k = 0
                     THEN /\ Exit(0, <<>>)
                          /\ shown' = <<>>
                          /\ UNCHANGED log
                     ELSE /\ shown' = <<ps[k]>>
                          /\ IF editorSet
                             THEN /\ Exit(0, <<>>)
                                  /\ log' = Append(log, [cmd |-> "editor",
                                                         path |-> pPath(ps[k])])
                             ELSE /\ Exit(1, << <<"EDITOR environment variable is not set">> >>)
                                  /\ UNCHANGED log
    /\ UNCHANGED <<args, profile, ni, pi, firstFail, action>>

\* removePlist up to its range loop
removePlist ==
    /\ pc = "removePlist"
    /\ IF Len(args) < 3
       THEN /\ Exit(1, << <<"name required">> >>)
            /\ UNCHANGED <<names, plists, scan>>
       ELSE \E o \in ScanOutcomes :
              /\ names' = <<args[3]>>
              /\ scan' = o
              /\ plists' = getPlists(o)
              /\ pc' = "removePlist.loop"
              /\ UNCHANGED <<exitCode, printed, results>>
    /\ UNCHANGED <<args, profile, ni, pi, log, firstFail, shown, action>>

\* one iteration of the range loop of removePlist; ok is whether os.Remove
\* succeeds
removePlistLoop ==
    /\ pc = "removePlist.loop"
    /\ IF pi > Len(plists)
       THEN /\ Exit(0, <<>>)
            /\ UNCHANGED <<pi, log, firstFail>>
       ELSE \E ok \in BOOLEAN :
              LET path == pPath(plists[pi])
                  w == IF Matches(plists[pi], names[1])
                       THEN Println(Exec(World, "remove", path, ok),
                                    IF ok THEN <<"removed", path>>
                                    ELSE <<"failed to remove", path>>)
                       ELSE World
              IN  /\ log' = w.log
                  /\ printed' = w.printed
                  /\ firstFail' = w.firstFail
                  /\ results' = w.results
                  /\ pi' = pi + 1
                  /\ UNCHANGED <<pc, exitCode>>
    /\ UNCHANGED <<args, profile, names, plists, ni, shown, action, scan>>

\* printList: one line per catalog entry
printList ==
    /\ pc = "printList"
    /\ \E o \in ScanOutcomes :
         /\ scan' = o
         /\ plists' = getPlists(o)
         /\ Exit(0, plists')
    /\ UNCHANGED <<args, profile, names, ni, pi, log, firstFail, shown, action>>

\* scanPath: one line per entry found under the given (or the default) root
scanPath ==
    /\ pc = "scanPath"
    /\ \E o \in ScanOutcomes :
         /\ scan' = o
         /\ plists' = findPlists(o)
         /\ Exit(0, plists')
    /\ UNCHANGED <<args, profile, names, ni, pi, log, firstFail, shown, action>>

\* wrap(printUsage), the handler of help
printUsage ==
    /\ pc = "printUsage"
    /\ Exit(0, <<Usage>>)
    /\ UNCHANGED <<args, profile, names, plists, ni, pi, log, firstFail,
                   shown, action, scan>>

Next ==
    \/ Main
    \/ startDaemons
    \/ stopDaemons
    \/ restartDaemons
    \/ startDaemonsLoop
    \/ stopDaemonsLoop
    \/ restartDaemonsLoop
    \/ startProfile
    \/ stopProfile
    \/ restartProfile
    \/ plistsAction
    \/ showPlist
    \/ editPlist
    \/ removePlist
    \/ removePlistLoop
    \/ printList
    \/ scanPath
    \/ printUsage

Spec == Init /\ [][Next]_vars

-----------------------------------------------------------------------------
(* Vocabulary of the properties *)

Verb == IF Len(args) >= 2 THEN args[2] ELSE ""

\* the invocation is a start, stop or restart
IsBatch == Verb \in BatchVerbs

\* the batch takes its fragments from the profile / from the command line
FromProfile == IsBatch /\ Len(args) = 2

FromArgument == IsBatch /\ Len(args) = 3

\* f occurs in p as a contiguous run of characters
IsSubstring(f, p) ==
    \E k \in 0 .. Len(p) : k + Len(f) <= Len(p) /\ SubSeq(p, k + 1, k + Len(f)) = f

\* the external commands one descriptor gets under an action
CommandsFor(act, plist) ==
    CASE act = "start"   -> << [cmd |-> "load", path |-> pPath(plist)] >>
      [] act = "stop"    -> << [cmd |-> "unload", path |-> pPath(plist)] >>
      [] act = "restart" -> << [cmd |-> "unload", path |-> pPath(plist)],
                               [cmd |-> "load", path |-> pPath(plist)] >>

\* the commands of a whole batch: fragments in list order, and for each
\* fragment the catalog entries that contain it, in catalog order
RECURSIVE ForEntries(_, _, _)
ForEntries(act, f, ps) ==
    IF ps = <<>> THEN <<>>
    ELSE (IF IsSubstring(f, Head(ps)) THEN CommandsFor(act, Head(ps)) ELSE <<>>)
         \o ForEntries(act, f, Tail(ps))

RECURSIVE ForFragments(_, _, _)
ForFragments(act, fs, ps) ==
    IF fs = <<>> THEN <<>>
    ELSE ForEntries(act, Head(fs), ps) \o ForFragments(act, Tail(fs), ps)

\* the batch has returned from its loops
BatchDone == IsBatch /\ pc = "exit" /\ exitCode = 0

\* the catalog entry the latest loop step looked at
Current == plists[pi - 1]

-----------------------------------------------------------------------------
(* C1 *)

\* C1: in a batch start / stop / restart, once a load or unload has failed
\* the process keeps running its loops (it never exits from inside them),
\* it ends with exit code 0, and by then every command of the batch has
\* been issued, those after the failed one included.
C1_FailureIsolated ==
    (IsBatch /\ firstFail > 0) =>
        /\ exitCode \in {-1, 0}
        /\ pc = "exit" => log = ForFragments(Verb, names, plists)

\* a finished batch in which a command failed and commands for another
\* descriptor were issued after it
C1_Witness ==
    /\ BatchDone
    /\ firstFail > 0
    /\ \E k \in (firstFail + 1) .. Len(log) : log[k].path # log[firstFail].path

-----------------------------------------------------------------------------
(* C2 *)

-----------------------------------------------------------------------------
(* C3 *)

\* the trimmed lines of a text that are neither empty nor comments, in
\* file order
RECURSIVE NonCommentLines(_)
NonCommentLines(ls) ==
    IF ls = <<>> THEN <<>>
    ELSE LET line == TrimSpace(Head(ls))
         IN  (IF line = <<>> \/ Head(line) = "#" THEN <<>> ELSE <<line>>)
             \o NonCommentLines(Tail(ls))

\* the fragments a profile file holds; none when it cannot be read
ProfileFragments(f) ==
    IF f.kind = "ok" THEN NonCommentLines(Split(f.text, NL)) ELSE <<>>

\* C3: for start, stop and restart: with no fragment and no profile the
\* invocation has ended with "name required" and exit code 1 and issued
\* nothing; with no fragment and a profile, the batch runs in plistsAction
\* under the verb's action and, when it has returned, has issued the
\* commands of the fragments written in the profile file; with a fragment
\* the profile is never looked at and the batch is the all-match
\* resolution of that one fragment.
C3_FragmentSource ==
    /\ (FromProfile /\ profile.kind = "absent") =>
          /\ pc = "exit" /\ exitCode = 1
          /\ printed = << <<"name required">> >>
          /\ log = <<>>
    /\ (FromProfile /\ profile.kind \in {"ok", "unreadable"}) =>
          /\ pc \in {Verb \o "Profile", "plistsAction", "exit"}
          /\ pc = "plistsAction" => action = Verb
          /\ BatchDone =>
                log = ForFragments(Verb, ProfileFragments(profile), plists)
    /\ FromArgument =>
          /\ profile = NotRead
          /\ pc \in {"main", Verb \o "Daemons", Verb \o "Daemons.loop", "exit"}
          /\ BatchDone => log = ForFragments(Verb, <<args[3]>>, plists)

\* start, stop or restart without a fragment and without a profile
C3_Witness ==
    /\ FromProfile
    /\ profile.kind = "absent"
    /\ pc = "exit"

-----------------------------------------------------------------------------
(* C4 *)

\* C4: while a batch runs, the commands issued so far are exactly those of
\* the fragments already finished and of the catalog entries already
\* visited for the current fragment, and a step prints one line per command
\* it issued (so nothing is printed for an entry or a fragment that does
\* not match); when the batch has returned, the commands issued are exactly
\* those of the entries containing a fragment, in fragment then catalog
\* order.
C4_BatchDispatch ==
    /\ (IsBatch /\ pc \in {"plistsAction", Verb \o "Daemons.loop"}) =>
          /\ log = ForFragments(Verb, SubSeq(names, 1, ni - 1), plists)
                   \o ForEntries(Verb, names[ni], SubSeq(plists, 1, pi - 1))
          /\ pi > 1 => Len(printed) = Len(results)
    /\ BatchDone => log = ForFragments(Verb, names, plists)

\* a finished batch over two fragments, the first contained in no catalog
\* entry and the second in two
C4_Witness ==
    /\ BatchDone
    /\ Len(names) = 2
    /\ Len(plists) = 2
    /\ \A k \in 1 .. 2 : ~IsSubstring(names[1], plists[k])
    /\ \A k \in 1 .. 2 : IsSubstring(names[2], plists[k])
    /\ Len(log) = 2 * Len(CommandsFor(Verb, plists[1]))

-----------------------------------------------------------------------------
(* C5 *)

\* the invocation is a show, edit or remove that was given a fragment
SingleTarget == Verb \in {"show", "edit", "remove", "rm"} /\ Len(args) = 3

\* C5: a show, edit or remove whose fragment is contained in no catalog
\* entry ends with a non-zero exit code.
C5_NoMatchIsFatal ==
    (/\ SingleTarget
     /\ pc = "exit"
     /\ \A k \in 1 .. Len(plists) : ~IsSubstring(args[3], plists[k]))
        => exitCode # 0

-----------------------------------------------------------------------------
(* C6 *)

IsSorted(ps) ==
    \A x, y \in 1 .. Len(ps) : x < y => ~LexLess(ps[y], ps[x])

\* C6: the catalog findPlists returns is sorted, and the entry show or edit
\* selects is the smallest, in string order, of the entries that contain
\* the fragment.
C6_FirstMatchIsSmallest ==
    /\ scan # NoScan => IsSorted(plists)
    /\ (Verb \in {"show", "edit"} /\ shown # <<>>) =>
          \A k \in 1 .. Len(plists) :
              IsSubstring(args[3], plists[k]) => ~LexLess(plists[k], shown[1])

-----------------------------------------------------------------------------
(* C7 *)

\* the lines of a text: its pieces between line ends, without the empty
\* piece after the last line end
LinesOf(t) ==
    LET pieces == Split(t, NL)
    IN  IF pieces[Len(pieces)] = <<>>
        THEN SubSeq(pieces, 1, Len(pieces) - 1)
        ELSE pieces

\* the profile loader has run on a readable profile
ProfileLoaded ==
    /\ FromProfile
    /\ profile.kind = "ok"
    /\ pc \in {"plistsAction", "exit"}

\* C7: for every content of a readable profile the loader ends normally and
\* returns the trimmed lines that are neither empty nor comments, in file
\* order.
C7_ProfileLines ==
    ProfileLoaded =>
        /\ exitCode # 2
        /\ names = NonCommentLines(LinesOf(profile.text))

-----------------------------------------------------------------------------
(* C8 *)

\* C8: without a profile a batch without a fragment ends with "name
\* required" and exit code 1; with a profile that is empty or holds only
\* white space it issues nothing and ends with exit code 0.
C8_EmptyProfileIsNotAbsent ==
    /\ (FromProfile /\ profile.kind = "absent") =>
          exitCode = 1 /\ printed = << <<"name required">> >>
    /\ (FromProfile /\ profile.kind = "ok" /\ TrimSpace(profile.text) = <<>>
        /\ pc = "exit") =>
          exitCode = 0 /\ log = <<>>

-----------------------------------------------------------------------------
(* C9 *)

\* C9: a batch without a fragment whose profile is present but cannot be
\* read ends with exit code 1.
C9_UnreadableProfileIsFatal ==
    (FromProfile /\ profile.kind = "unreadable" /\ pc = "exit") => exitCode = 1

-----------------------------------------------------------------------------
(* C10 *)

\* the name of a descriptor file: its base name without the extension
DescriptorName(file) ==
    LET base == LastElement(file)
    IN  SubSeq(base, 1, Len(base) - Len(Ext))

\* C10: when find succeeds, every catalog entry is the name of a descriptor
\* file that find reported; a scan that reports no file gives the empty
\* catalog.
C10_CatalogFromFiles ==
    (scan # NoScan /\ scan.ok) =>
        \A k \in 1 .. Len(plists) :
            \E x \in 1 .. Len(scan.files) : plists[k] = DescriptorName(scan.files[x])

=============================================================================
